---- MODULE Spec2Model ----
(***************************************************************************)
(* BERT.py: read two strings, embed each with a pretrained encoder by      *)
(* mean-pooling the final hidden states, compare the two embeddings by     *)
(* cosine similarity and print a five-line report.                         *)
(*                                                                         *)
(* The program is main() (src/BERT.py:10-31), one statement per action,    *)
(* and get_embedding() (src/BERT.py:5-8).  The libraries it calls are      *)
(* modelled by what they do on small exact values:                         *)
(*   - a text is a sequence of word indices; the tokenizer wraps it in     *)
(*     [CLS] ... [SEP];                                                    *)
(*   - the encoder is a deterministic function of the token ids, chosen    *)
(*     at load time from a small family (the content of the model store);  *)
(*   - reals are exact: an embedding component is an integer and a score   *)
(*     is sign * sqrt(num / den) kept as a reduced fraction.               *)
(***************************************************************************)
EXTENDS Integers, Sequences, FiniteSets

\* ---------------------------------------------------------------- bounds
MaxLen == 3          \* longest input text, in words
NumWords == 2        \* words of the tokenizer's vocabulary
MaxPositions == 4    \* the encoder's maximum sequence length, in tokens
MaxWeight == 2       \* checkpoints of the store: 0 (all zero) .. MaxWeight
SmallDim == 3        \* the smaller of the two hidden dimensions tried

\* ------------------------------------------------------ program constants
PreviewLen == 10     \* [:10]
ScoreDecimals == 4   \* :.4f

\* ----------------------------------------------------------- arithmetic
RECURSIVE Gcd(_, _)
Gcd(a, b) == IF b = 0 THEN a ELSE Gcd(b, a % b)

Abs(x) == IF x < 0 THEN -x ELSE x

Sign(x) == IF x < 0 THEN -1 ELSE IF x = 0 THEN 0 ELSE 1

RECURSIVE LcmUpTo(_)
LcmUpTo(n) == IF n <= 1 THEN 1
              ELSE LET l == LcmUpTo(n - 1) IN (l * n) \div Gcd(l, n)

RECURSIVE Pow10(_)
Pow10(n) == IF n = 0 THEN 1 ELSE 10 * Pow10(n - 1)

RECURSIVE SumSeq(_)
SumSeq(s) == IF s = <<>> THEN 0 ELSE s[1] + SumSeq(Tail(s))

RECURSIVE GcdSeq(_)
GcdSeq(s) == IF s = <<>> THEN 0 ELSE Gcd(Abs(s[1]), GcdSeq(Tail(s)))

Dot(a, b) == SumSeq([j \in 1..Len(a) |-> a[j] * b[j]])

\* floor(sqrt(n)), by bisection on lo <= sqrt(n) < hi
RECURSIVE ISqrtIn(_, _, _)
ISqrtIn(n, lo, hi) ==
    IF hi - lo <= 1 THEN lo
    ELSE LET mid == (lo + hi) \div 2
         IN IF mid * mid <= n THEN ISqrtIn(n, mid, hi) ELSE ISqrtIn(n, lo, mid)

ISqrt(n) == ISqrtIn(n, 0, Pow10(ScoreDecimals) + 1)

\* long division: <<floor(num * 10^digits / den), remainder>>
RECURSIVE LongDiv(_, _, _)
LongDiv(num, den, digits) ==
    IF digits = 0 THEN <<num \div den, num % den>>
    ELSE LET prev == LongDiv(num, den, digits - 1)
         IN <<prev[1] * 10 + (prev[2] * 10) \div den, (prev[2] * 10) % den>>

\* ------------------------------------------------------ Python's values
\* A local of main() is unbound until its assignment.
Unbound == <<>>
Bound(v) == <<v>>
Get(x) == x[1]

Returned(v) == [raised |-> FALSE, value |-> <<v>>]
Raised == [raised |-> TRUE, value |-> <<>>]

\* ------------------------------------------------------------ tokenizer
CLS == 101
SEP == 102
Words == 1..NumWords
Texts == UNION {[1..n -> Words] : n \in 0..MaxLen}

\* tokenizer(text, return_tensors='pt'): [CLS] w1 .. wn [SEP]; the empty
\* text gives the two special tokens.
Tokenize(tokenizer, text) ==
    <<CLS>> \o [i \in 1..Len(text) |-> tokenizer.first_word + text[i]] \o <<SEP>>

\* What the store can hold under the fixed name.
Tokenizers == {[first_word |-> SEP]}

\* -------------------------------------------------------------- encoder
\* What the store can hold under the fixed name; nothing pins its content.
\* hidden: hidden dimension; vocab: largest id of the embedding table (one
\* short of the tokenizer's vocabulary, or matching it); positions: maximum
\* sequence length; weights: the checkpoint.
Models == [hidden : {SmallDim, PreviewLen + SmallDim},
           vocab : {SEP + NumWords - 1, SEP + NumWords},
           positions : {MaxPositions},
           weights : 0..MaxWeight]

Scale == LcmUpTo(MaxPositions)

\* One component j of the final hidden state of token i: a deterministic
\* function of the token's id, its position and the other ids (context).
\* Checkpoint 0 is the all-zero one.
HiddenUnit(w, id, context, i, j) ==
    IF w = 0 THEN 0 ELSE ((w * id + i * j + context) % 3) - 1

\* model(**inputs): raises on a sequence longer than the position table or
\* an id outside the embedding table; else outputs.last_hidden_state, one
\* row of model.hidden components per token.
Forward(model, ids) ==
    IF Len(ids) > model.positions \/ \E i \in 1..Len(ids) : ids[i] > model.vocab
    THEN Raised
    ELSE LET context == SumSeq(ids)
         IN Returned([i \in 1..Len(ids) |->
                        [j \in 1..model.hidden |->
                           Scale * HiddenUnit(model.weights, ids[i], context, i, j)]])

\* Mutant of MeanDim1: the average taken over the hidden axis (dim=2).
MeanDim2(hs) ==
    <<[i \in 1..Len(hs) |->
         SumSeq([j \in 1..Len(hs[i]) |-> hs[i][j]]) \div Len(hs[i])]>>

\* last_hidden_state.mean(dim=1): average over the token axis; the batch
\* axis stays, so the result is a 1 x hidden matrix.
MeanDim1(hs) ==
    <<[j \in 1..Len(hs[1]) |->
         SumSeq([i \in 1..Len(hs) |-> hs[i][j]]) \div Len(hs)]>>

get_embedding(text, model, tokenizer) ==
    LET inputs == Tokenize(tokenizer, text)
        outputs == Forward(model, inputs)
    IN IF outputs.raised THEN Raised
       ELSE Returned(MeanDim1(Get(outputs.value)))

\* ---------------------------------------------------- cosine similarity
\* sklearn's normalize(): a row divided by its norm, a zero norm replaced
\* by 1.  Kept exact as the row's primitive direction and that direction's
\* squared norm.
Normalize(v) ==
    LET g == GcdSeq(v)
    IN IF g = 0 THEN [dir |-> v, n2 |-> 1]
       ELSE LET d == [j \in 1..Len(v) |-> v[j] \div g]
            IN [dir |-> d, n2 |-> Dot(d, d)]

\* The real number sgn * sqrt(num / den), num / den reduced.
Score(sgn, num, den) ==
    LET g == Gcd(num, den)
    IN [sgn |-> sgn, num |-> num \div g, den |-> den \div g]

\* cosine_similarity(X, Y) for 1-row X and Y: the 1 x 1 matrix of the dot
\* product of the normalized rows; raises on rows of different lengths.
cosine_similarity(X, Y) ==
    IF Len(X[1]) # Len(Y[1]) THEN Raised
    ELSE LET a == Normalize(X[1])
             b == Normalize(Y[1])
             d == Dot(a.dir, b.dir)
         IN Returned(<<<<Score(Sign(d), d * d, a.n2 * b.n2)>>>>)

\* f"{x:.4f}": the score rounded to ScoreDecimals places, as a sign and the
\* digits (10000 is 1.0000).
Format4f(x) ==
    LET q == LongDiv(x.num, x.den, 2 * ScoreDecimals)
        k == ISqrt(q[1])
        up == q[1] > k * k + k \/ (q[1] = k * k + k /\ 4 * q[2] >= x.den)
    IN [neg |-> x.sgn < 0, digits |-> IF up THEN k + 1 ELSE k]

\* Mutant of Truncate: the slice one short, [:9].
TruncateNine(embedding) ==
    LET row == embedding[1]
        n == IF Len(row) < PreviewLen - 1 THEN Len(row) ELSE PreviewLen - 1
    IN SubSeq(row, 1, n)

\* array[0][:10].tolist()
Truncate(embedding) ==
    LET row == embedding[1]
        n == IF Len(row) < PreviewLen THEN Len(row) ELSE PreviewLen
    IN SubSeq(row, 1, n)

\* ----------------------------------------------------------------- state
VARIABLES pc, sentence, keyword, tokenizer, model,
          sentence_embedding, keyword_embedding, similarity_score,
          sentence_embedding_truncated, keyword_embedding_truncated,
          stdout, trace

vars == <<pc, sentence, keyword, tokenizer, model,
          sentence_embedding, keyword_embedding, similarity_score,
          sentence_embedding_truncated, keyword_embedding_truncated,
          stdout, trace>>

loaded == <<tokenizer, model>>
embeddings == <<sentence_embedding, keyword_embedding>>
previews == <<sentence_embedding_truncated, keyword_embedding_truncated>>

\* A finished call, in the order the calls finish.
Call(name, args, raised) == [call |-> name, args |-> args, raised |-> raised]

Prompt(text) == [prompt |-> text]
TextLine(label, text) == [line |-> label, text |-> text]
EmbeddingLine(values) == [line |-> "Embedding", values |-> values, suffix |-> "..."]
ScoreLine(score) == [line |-> "Similarity Score", score |-> Format4f(score)]

Init ==
    /\ pc = "input_sentence"
    /\ sentence = Unbound
    /\ keyword = Unbound
    /\ tokenizer = Unbound
    /\ model = Unbound
    /\ sentence_embedding = Unbound
    /\ keyword_embedding = Unbound
    /\ similarity_score = Unbound
    /\ sentence_embedding_truncated = Unbound
    /\ keyword_embedding_truncated = Unbound
    /\ stdout = <<>>
    /\ trace = <<>>

\* sentence = input("Sentence: "): the prompt is written, then a line is
\* read; end of input raises EOFError.
InputSentence ==
    /\ pc = "input_sentence"
    /\ stdout' = Append(stdout, Prompt("Sentence: "))
    /\ \/ \E s \in Texts :
            /\ sentence' = Bound(s)
            /\ trace' = Append(trace, Call("input", <<>>, FALSE))
            /\ pc' = "input_keyword"
       \/ /\ trace' = Append(trace, Call("input", <<>>, TRUE))
          /\ pc' = "error"
          /\ UNCHANGED sentence
    /\ UNCHANGED <<keyword, loaded, embeddings, similarity_score, previews>>

\* keyword = input("Keyword: ")
InputKeyword ==
    /\ pc = "input_keyword"
    /\ stdout' = Append(stdout, Prompt("Keyword: "))
    /\ \/ \E k \in Texts :
            /\ keyword' = Bound(k)
            /\ trace' = Append(trace, Call("input", <<>>, FALSE))
            /\ pc' = "load_tokenizer"
       \/ /\ trace' = Append(trace, Call("input", <<>>, TRUE))
          /\ pc' = "error"
          /\ UNCHANGED keyword
    /\ UNCHANGED <<sentence, loaded, embeddings, similarity_score, previews>>

\* tokenizer = BertTokenizer.from_pretrained('bert-base-uncased'): the store
\* yields a tokenizer, or the load raises.
LoadTokenizer ==
    /\ pc = "load_tokenizer"
    /\ \/ \E t \in Tokenizers :
            /\ tokenizer' = Bound(t)
            /\ trace' = Append(trace, Call("BertTokenizer.from_pretrained", <<>>, FALSE))
            /\ pc' = "load_model"
       \/ /\ trace' = Append(trace, Call("BertTokenizer.from_pretrained", <<>>, TRUE))
          /\ pc' = "error"
          /\ UNCHANGED tokenizer
    /\ UNCHANGED <<sentence, keyword, model, embeddings, similarity_score, previews, stdout>>

\* Mutant of LoadModel: a failed load is caught and tried again.
LoadModelRetry ==
    /\ pc = "load_model"
    /\ \/ \E m \in Models :
            /\ model' = Bound(m)
            /\ trace' = Append(trace, Call("BertModel.from_pretrained", <<>>, FALSE))
            /\ pc' = "embed_sentence"
       \/ /\ trace' = Append(trace, Call("BertModel.from_pretrained", <<>>, TRUE))
          /\ pc' = "load_model"
          /\ UNCHANGED model
    /\ UNCHANGED <<sentence, keyword, tokenizer, embeddings, similarity_score, previews, stdout>>

\* model = BertModel.from_pretrained('bert-base-uncased')
LoadModel ==
    /\ pc = "load_model"
    /\ \/ \E m \in Models :
            /\ model' = Bound(m)
            /\ trace' = Append(trace, Call("BertModel.from_pretrained", <<>>, FALSE))
            /\ pc' = "embed_sentence"
       \/ /\ trace' = Append(trace, Call("BertModel.from_pretrained", <<>>, TRUE))
          /\ pc' = "error"
          /\ UNCHANGED model
    /\ UNCHANGED <<sentence, keyword, tokenizer, embeddings, similarity_score, previews, stdout>>

\* Mutant of EmbedSentence: the first call is given the keyword.
EmbedSentenceFromKeyword ==
    /\ pc = "embed_sentence"
    /\ LET r == get_embedding(Get(keyword), Get(model), Get(tokenizer))
       IN /\ trace' = Append(trace, Call("get_embedding", <<Get(keyword)>>, r.raised))
          /\ sentence_embedding' = r.value
          /\ pc' = IF r.raised THEN "error" ELSE "embed_keyword"
    /\ UNCHANGED <<sentence, keyword, loaded, keyword_embedding, similarity_score,
                   previews, stdout>>

\* Mutant of EmbedSentence: the forward pass leaves the encoder changed.
EmbedSentenceChangesModel ==
    /\ pc = "embed_sentence"
    /\ LET r == get_embedding(Get(sentence), Get(model), Get(tokenizer))
       IN /\ trace' = Append(trace, Call("get_embedding", <<Get(sentence)>>, r.raised))
          /\ sentence_embedding' = r.value
          /\ pc' = IF r.raised THEN "error" ELSE "embed_keyword"
    /\ model' = Bound([Get(model) EXCEPT !.weights = (@ + 1) % (MaxWeight + 1)])
    /\ UNCHANGED <<sentence, keyword, tokenizer, keyword_embedding, similarity_score,
                   previews, stdout>>

\* sentence_embedding = get_embedding(sentence, model, tokenizer)
EmbedSentence ==
    /\ pc = "embed_sentence"
    /\ LET r == get_embedding(Get(sentence), Get(model), Get(tokenizer))
       IN /\ trace' = Append(trace, Call("get_embedding", <<Get(sentence)>>, r.raised))
          /\ sentence_embedding' = r.value
          /\ pc' = IF r.raised THEN "error" ELSE "embed_keyword"
    /\ UNCHANGED <<sentence, keyword, loaded, keyword_embedding, similarity_score,
                   previews, stdout>>

\* Mutant of EmbedKeyword: the sentence line is printed before the keyword
\* is embedded.
EmbedKeywordAfterPrinting ==
    /\ pc = "embed_keyword"
    /\ LET r == get_embedding(Get(keyword), Get(model), Get(tokenizer))
       IN /\ trace' = Append(trace, Call("get_embedding", <<Get(keyword)>>, r.raised))
          /\ keyword_embedding' = r.value
          /\ pc' = IF r.raised THEN "error" ELSE "cosine"
    /\ stdout' = Append(stdout, TextLine("Sentence", Get(sentence)))
    /\ UNCHANGED <<sentence, keyword, loaded, sentence_embedding, similarity_score,
                   previews>>

\* keyword_embedding = get_embedding(keyword, model, tokenizer)
EmbedKeyword ==
    /\ pc = "embed_keyword"
    /\ LET r == get_embedding(Get(keyword), Get(model), Get(tokenizer))
       IN /\ trace' = Append(trace, Call("get_embedding", <<Get(keyword)>>, r.raised))
          /\ keyword_embedding' = r.value
          /\ pc' = IF r.raised THEN "error" ELSE "cosine"
    /\ UNCHANGED <<sentence, keyword, loaded, sentence_embedding, similarity_score,
                   previews, stdout>>

\* Mutant of SimilarityScore: the dot product divided by the first
\* vector's squared magnitude.
SimilarityScoreOneNorm(se, ke) ==
    LET d == Dot(se[1], ke[1])
        n == Dot(se[1], se[1])
    IN Returned(Score(Sign(d), d * d, IF n = 0 THEN 1 ELSE n * n))

\* Mutant of SimilarityScore: the dot product, not normalized.
SimilarityScoreDot(se, ke) ==
    LET d == Dot(se[1], ke[1])
    IN Returned(Score(Sign(d), d * d, 1))

\* Mutant of SimilarityScore: divided by the squared magnitudes.
SimilarityScoreSquaredNorms(se, ke) ==
    LET a == Normalize(se[1])
        b == Normalize(ke[1])
        d == Dot(a.dir, b.dir)
    IN Returned(Score(Sign(d), d * d, (a.n2 * b.n2) * (a.n2 * b.n2)))

\* The value of cosine_similarity(sentence_embedding, keyword_embedding)[0][0]
SimilarityScore(se, ke) ==
    LET r == cosine_similarity(se, ke)
    IN IF r.raised THEN Raised ELSE Returned(Get(r.value)[1][1])

\* similarity_score = cosine_similarity(sentence_embedding, keyword_embedding)[0][0]
Compare ==
    /\ pc = "cosine"
    /\ LET r == SimilarityScore(Get(sentence_embedding), Get(keyword_embedding))
       IN /\ trace' = Append(trace, Call("cosine_similarity", <<>>, r.raised))
          /\ similarity_score' = r.value
          /\ pc' = IF r.raised THEN "error" ELSE "truncate_sentence"
    /\ UNCHANGED <<sentence, keyword, loaded, embeddings, previews, stdout>>

\* sentence_embedding_truncated = sentence_embedding[0][:10]
TruncateSentence ==
    /\ pc = "truncate_sentence"
    /\ sentence_embedding_truncated' = Bound(Truncate(Get(sentence_embedding)))
    /\ pc' = "truncate_keyword"
    /\ UNCHANGED <<sentence, keyword, loaded, embeddings, similarity_score,
                   keyword_embedding_truncated, stdout, trace>>

\* keyword_embedding_truncated = keyword_embedding[0][:10]
TruncateKeyword ==
    /\ pc = "truncate_keyword"
    /\ keyword_embedding_truncated' = Bound(Truncate(Get(keyword_embedding)))
    /\ pc' = "print_sentence"
    /\ UNCHANGED <<sentence, keyword, loaded, embeddings, similarity_score,
                   sentence_embedding_truncated, stdout, trace>>

\* print(...): one line to standard output.
PrintLine(at, line, then) ==
    /\ pc = at
    /\ stdout' = Append(stdout, line)
    /\ trace' = Append(trace, Call("print", <<>>, FALSE))
    /\ pc' = then
    /\ UNCHANGED <<sentence, keyword, loaded, embeddings, similarity_score, previews>>

\* print(f"Sentence: {sentence}")
PrintSentence ==
    PrintLine("print_sentence", TextLine("Sentence", Get(sentence)), "print_sentence_embedding")

\* Mutant of PrintSentenceEmbedding: the keyword's preview is printed.
PrintSentenceEmbeddingSwapped ==
    PrintLine("print_sentence_embedding", EmbeddingLine(Get(keyword_embedding_truncated)),
              "print_keyword")

\* print(f"Embedding: {sentence_embedding_truncated.tolist()} ...")
PrintSentenceEmbedding ==
    PrintLine("print_sentence_embedding", EmbeddingLine(Get(sentence_embedding_truncated)),
          "print_keyword")

\* print(f"Keyword: {keyword}")
PrintKeyword ==
    PrintLine("print_keyword", TextLine("Keyword", Get(keyword)), "print_keyword_embedding")

\* print(f"Embedding: {keyword_embedding_truncated.tolist()} ...")
PrintKeywordEmbedding ==
    PrintLine("print_keyword_embedding", EmbeddingLine(Get(keyword_embedding_truncated)),
          "print_score")

\* print(f"Similarity Score: {similarity_score:.4f}")
PrintScore ==
    PrintLine("print_score", ScoreLine(Get(similarity_score)), "done")

Next ==
    \/ InputSentence
    \/ InputKeyword
    \/ LoadTokenizer
    \/ LoadModel
    \/ EmbedSentence
    \/ EmbedKeyword
    \/ Compare
    \/ TruncateSentence
    \/ TruncateKeyword
    \/ PrintSentence
    \/ PrintSentenceEmbedding
    \/ PrintKeyword
    \/ PrintKeywordEmbedding
    \/ PrintScore

Spec == Init /\ [][Next]_vars

\* ================================================================ claims
Last(s) == s[Len(s)]
IsPrefix(s, t) == Len(s) <= Len(t) /\ \A i \in 1..Len(s) : s[i] = t[i]
Calls == [i \in 1..Len(trace) |-> trace[i].call]
IsReportLine(e) == "line" \in DOMAIN e
ReportLines == SelectSeq(stdout, IsReportLine)
IsZero(v) == \A j \in 1..Len(v) : v[j] = 0
IsOne(x) == x.sgn = 1 /\ x.num = x.den
Finished == pc \in {"done", "error"}
LoadCalls == {"BertTokenizer.from_pretrained", "BertModel.from_pretrained"}
CountCalls(name) == Cardinality({i \in 1..Len(trace) : trace[i].call = name})

\* The calls of a complete run, in the order of the statements of main().
MainOrder ==
    <<"input", "input",
      "BertTokenizer.from_pretrained", "BertModel.from_pretrained",
      "get_embedding", "get_embedding", "cosine_similarity",
      "print", "print", "print", "print", "print">>

\* C1: the calls of a run are a prefix of load tokenizer, load encoder,
\* embed(sentence), embed(keyword), compare, print; a call that raised is the
\* last one; the first embedding is of the sentence and the second of the
\* keyword; an embedding call is preceded by both successful loads.
C1_StrictOrder ==
    /\ IsPrefix(Calls, MainOrder)
    /\ \A i \in 1..Len(trace) : trace[i].raised => i = Len(trace)
    /\ Len(trace) >= 5 => trace[5].args = <<Get(sentence)>>
    /\ Len(trace) >= 6 => trace[6].args = <<Get(keyword)>>
    /\ \A i \in 1..Len(trace) :
          trace[i].call = "get_embedding" =>
             /\ tokenizer # Unbound /\ model # Unbound
             /\ \A c \in LoadCalls :
                   \E h \in 1..(i - 1) : trace[h].call = c /\ ~trace[h].raised

C1_Witness ==
    /\ pc = "done"
    /\ Get(sentence) # Get(keyword)
    /\ Get(sentence_embedding) # Get(keyword_embedding)

\* Line i of the report of a successful run, from the inputs and the loaded
\* objects.
ExpectedLine(i) ==
    LET se == Get(get_embedding(Get(sentence), Get(model), Get(tokenizer)).value)
        ke == Get(get_embedding(Get(keyword), Get(model), Get(tokenizer)).value)
        n == IF Get(model).hidden < PreviewLen THEN Get(model).hidden ELSE PreviewLen
    IN CASE i = 1 -> [line |-> "Sentence", text |-> Get(sentence)]
         [] i = 2 -> [line |-> "Embedding", values |-> [j \in 1..n |-> se[1][j]],
                      suffix |-> "..."]
         [] i = 3 -> [line |-> "Keyword", text |-> Get(keyword)]
         [] i = 4 -> [line |-> "Embedding", values |-> [j \in 1..n |-> ke[1][j]],
                      suffix |-> "..."]
         [] i = 5 -> [line |-> "Similarity Score",
                      score |-> Format4f(Get(cosine_similarity(se, ke).value)[1][1])]

\* The statements of main() after the similarity computation, in order.
AfterCompare ==
    {"truncate_sentence", "truncate_keyword", "print_sentence",
     "print_sentence_embedding", "print_keyword", "print_keyword_embedding",
     "print_score", "done"}

\* The number of report lines printed when control is at a statement.
LinesPrintedAt(at) ==
    CASE at = "print_sentence_embedding" -> 1
      [] at = "print_keyword" -> 2
      [] at = "print_keyword_embedding" -> 3
      [] at = "print_score" -> 4
      [] at = "done" -> 5
      [] OTHER -> 0

\* C2: the report lines printed so far are the first lines of: the sentence
\* as read, the preview of the sentence's embedding, the keyword as read,
\* the preview of the keyword's embedding, the score to four decimals; a
\* run that ends normally has printed exactly these five, each once.
C2_Report ==
    /\ Len(ReportLines) = LinesPrintedAt(pc)
    /\ \A i \in 1..Len(ReportLines) : ReportLines[i] = ExpectedLine(i)
    /\ similarity_score # Unbound => pc \in AfterCompare
    /\ pc = "done" => similarity_score # Unbound /\ Len(ReportLines) = 5

C2_Witness ==
    /\ pc = "done"
    /\ Get(sentence) # Get(keyword)
    /\ Get(sentence_embedding_truncated) # Get(keyword_embedding_truncated)
    /\ Get(model).hidden > PreviewLen
    /\ Get(similarity_score).sgn # 0

\* The tokenizer produces ids the encoder's embedding table does not hold.
Mismatch ==
    /\ tokenizer # Unbound /\ model # Unbound
    /\ Get(tokenizer).first_word + NumWords > Get(model).vocab

ZeroVectorCompared ==
    /\ sentence_embedding # Unbound /\ keyword_embedding # Unbound
    /\ IsZero(Get(sentence_embedding)[1]) \/ IsZero(Get(keyword_embedding)[1])

EmptyInput ==
    \/ sentence # Unbound /\ Get(sentence) = <<>>
    \/ keyword # Unbound /\ Get(keyword) = <<>>

LoadFailed == \E i \in 1..Len(trace) : trace[i].call \in LoadCalls /\ trace[i].raised

\* C3 as stated: a finished run in which a load failed, the tokenizer does
\* not match the encoder, an input was empty or a zero vector was compared
\* ended in the error state with no similarity score printed.
C3_Original ==
    Finished /\ (LoadFailed \/ Mismatch \/ EmptyInput \/ ZeroVectorCompared) =>
        /\ pc = "error"
        /\ \A i \in 1..Len(stdout) :
              IsReportLine(stdout[i]) => stdout[i].line # "Similarity Score"

\* get_embedding raises exactly when the encoder's forward pass does.
ForwardRaises(text) ==
    LET ids == Tokenize(Get(tokenizer), text)
    IN \/ Len(ids) > Get(model).positions
       \/ \E i \in 1..Len(ids) : ids[i] > Get(model).vocab

\* C3 amended: a call that raises is the last call of the run, which is then
\* in the error state with no report line printed: nothing is caught or
\* retried.  A load can raise; get_embedding raises exactly when the token
\* sequence is too long for the encoder or holds an id outside its table, so
\* never for the empty string; the similarity computation does not raise,
\* and gives 0 when either vector is zero.
C3_Amended ==
    /\ \A i \in 1..Len(trace) : trace[i].raised => i = Len(trace) /\ pc = "error"
    /\ pc = "error" => Last(trace).raised /\ ReportLines = <<>>
    /\ \A i \in 1..Len(trace) :
          trace[i].call = "get_embedding" =>
             (trace[i].raised <=> ForwardRaises(trace[i].args[1]))
    /\ \A i \in 1..Len(trace) :
          trace[i].call = "get_embedding" /\ trace[i].args[1] = <<>> => ~trace[i].raised
    /\ \A i \in 1..Len(trace) : trace[i].call = "cosine_similarity" => ~trace[i].raised
    /\ similarity_score # Unbound /\ ZeroVectorCompared => Get(similarity_score).sgn = 0
    /\ pc = "done" => Last(stdout).line = "Similarity Score"

C3_Witness ==
    /\ pc = "error"
    /\ LoadFailed
    /\ Last(trace).call = "BertModel.from_pretrained"
    /\ sentence # Unbound /\ keyword # Unbound

\* The score main() computes from a sentence and a keyword (lines 17-21).
RunScore(s, k) ==
    SimilarityScore(Get(get_embedding(s, Get(model), Get(tokenizer)).value),
                    Get(get_embedding(k, Get(model), Get(tokenizer)).value))

\* C4: the score a run computes, and the score it prints, is the score
\* main() computes, with the same loaded tokenizer and encoder, from the
\* keyword as sentence and the sentence as keyword.
C4_Symmetric ==
    /\ pc = "truncate_sentence" =>
          similarity_score = RunScore(Get(keyword), Get(sentence)).value
    /\ pc = "done" =>
          Last(stdout) = ScoreLine(Get(RunScore(Get(keyword), Get(sentence)).value))

C4_Witness ==
    /\ pc = "done"
    /\ Get(sentence) # Get(keyword)
    /\ Get(sentence_embedding) # Get(keyword_embedding)
    /\ Get(similarity_score).sgn # 0
    /\ ~IsOne(Get(similarity_score))

Ratio(a, b) == Score(Sign(Dot(a, b)), Dot(a, b) * Dot(a, b), Dot(a, a) * Dot(b, b))

InUnitInterval(x) == x.sgn \in {-1, 0, 1} /\ 0 <= x.num /\ x.num <= x.den

HasHiddenLength(e) == e # Unbound => Len(Get(e)) = 1 /\ Len(Get(e)[1]) = Get(model).hidden

\* C7: every embedding returned is one row whose length is the encoder's
\* hidden dimension, whatever the number of tokens, so the two embeddings
\* have the same length.
C7_FixedLength ==
    /\ HasHiddenLength(sentence_embedding)
    /\ HasHiddenLength(keyword_embedding)
    /\ sentence_embedding # Unbound /\ keyword_embedding # Unbound =>
          Len(Get(sentence_embedding)[1]) = Len(Get(keyword_embedding)[1])

C7_Witness ==
    /\ sentence_embedding # Unbound /\ keyword_embedding # Unbound
    /\ Len(Get(sentence)) # Len(Get(keyword))
    /\ Len(Tokenize(Get(tokenizer), Get(sentence))) # Get(model).hidden
    /\ Len(Tokenize(Get(tokenizer), Get(keyword))) # Get(model).hidden

IsPreviewOf(p, e) ==
    p # Unbound =>
        LET d == Len(Get(e)[1])
        IN /\ Len(Get(p)) = (IF d < 10 THEN d ELSE 10)
           /\ d > 10 => Len(Get(p)) = 10
           /\ \A j \in 1..Len(Get(p)) : Get(p)[j] = Get(e)[1][j]

\* C8: a preview holds min(10, d) values, the first components of its
\* embedding in order, exactly 10 when d > 10; the printed embedding lines
\* hold the previews.
C8_Preview ==
    /\ IsPreviewOf(sentence_embedding_truncated, sentence_embedding)
    /\ IsPreviewOf(keyword_embedding_truncated, keyword_embedding)
    /\ Len(ReportLines) >= 2 => ReportLines[2].values = Get(sentence_embedding_truncated)
    /\ Len(ReportLines) >= 4 => ReportLines[4].values = Get(keyword_embedding_truncated)

C8_Witness ==
    /\ pc = "done"
    /\ Get(model).hidden > PreviewLen
    /\ ~IsZero(Get(keyword_embedding_truncated))
    /\ Get(keyword_embedding_truncated) # Get(sentence_embedding_truncated)

C10_AllOrNothing ==
    /\ (\E i \in 1..Len(trace) : trace[i].call \in LoadCalls) =>
          /\ sentence # Unbound /\ keyword # Unbound
          /\ trace[1] = Call("input", <<>>, FALSE)
          /\ trace[2] = Call("input", <<>>, FALSE)
    /\ ReportLines # <<>> =>
          /\ similarity_score # Unbound
          /\ Len(trace) >= 7
          /\ \A i \in 1..7 : ~trace[i].raised
          /\ IsPrefix(MainOrder, Calls) \/ IsPrefix(Calls, MainOrder)
    /\ pc = "error" /\ Last(trace).call \in LoadCalls \cup {"get_embedding", "cosine_similarity"} =>
          /\ sentence # Unbound /\ keyword # Unbound
          /\ ReportLines = <<>>

C10_Witness ==
    /\ pc = "error"
    /\ Len(trace) = 6
    /\ Last(trace).call = "get_embedding"
    /\ Last(trace).raised
====
